---- MODULE Spec2Model ----
(***************************************************************************)
(* automerge-persistent: a PersistentBackend (automerge engine + Persister)*)
(* over the sled persister.  The engine (automerge::Backend) is modelled   *)
(* by the set of changes it has applied and the set it holds pending on    *)
(* missing dependencies.  Storage is the two sled trees, keyed by bytes.   *)
(***************************************************************************)
EXTENDS Integers, Sequences, FiniteSets, TLC

VARIABLES
    changes_tree,   \* sled tree "changes": key bytes -> change bytes
    document_tree,  \* sled tree "documents": key bytes -> saved backend
    backend,        \* backend[b]: the automerge engine held by PersistentBackend b
    pc,             \* pc[b]: position of backend b inside its current call
    batch,          \* batch[b]: the Vec<Change> of the call in progress
    idx,            \* idx[b]: position of the insert loop in batch[b]
    todo,           \* todo[b]: changes compact still has to remove
    result,         \* result[b]: <<operation, outcome>> of the last finished call
    clean,          \* no apply call on the store has failed or been cut by a crash
    inp,            \* input of the pure-function harness
    out             \* output of the pure-function harness

coreVars == <<changes_tree, document_tree, backend, pc, batch, idx, todo, result, clean>>
pureVars == <<inp, out>>
vars == <<changes_tree, document_tree, backend, pc, batch, idx, todo, result, clean, inp, out>>

(***************************************************************************)
(* Bounds                                                                  *)
(***************************************************************************)
MaxBatch == 2       \* longest Vec<Change> handed to apply_changes
MaxLocalSeq == 1    \* highest seq a local actor reaches
MaxPrefixLen == 1   \* longest prefix tried by the key-encoding harness
MaxActorLen == 2    \* longest actor id tried by the key-encoding harness
MaxIds == 2         \* longest identifier list tried by the remove_changes harness

(***************************************************************************)
(* Bytes and keys (SledPersister)                                          *)
(***************************************************************************)
\* b"document"
DOCUMENT_KEY == <<100, 111, 99, 117, 109, 101, 110, 116>>

\* A u64 is held as four 16-bit limbs, most significant first.
Limb == 65536
U64Of(n) == <<0, 0, 0, n % Limb>>

\* numeric order of two u64 values
U64Less(s, t) ==
    \E i \in 1..4 : s[i] < t[i] /\ \A j \in 1..(i - 1) : s[j] = t[j]

\* u64::to_be_bytes: 8 bytes, most significant first
to_be_bytes(s) ==
    [i \in 1..8 |-> IF i % 2 = 1 THEN s[(i + 1) \div 2] \div 256
                                 ELSE s[i \div 2] % 256]

\* u64::to_le_bytes: 8 bytes, least significant first
to_le_bytes(s) ==
    [i \in 1..8 |-> IF i % 2 = 1 THEN s[4 - (i \div 2)] % 256
                                 ELSE s[5 - (i \div 2)] \div 256]

\* lexicographic order of byte strings (the order of sled keys)
BytesLess(x, y) ==
    \/ Len(x) < Len(y) /\ \A i \in 1..Len(x) : x[i] = y[i]
    \/ \E i \in 1..Len(x) : /\ i <= Len(y)
                            /\ x[i] < y[i]
                            /\ \A j \in 1..(i - 1) : x[j] = y[j]

make_key_le(prefix, actor_bytes, seq) == prefix \o actor_bytes \o to_le_bytes(seq)

make_key_noseq(prefix, actor_bytes, seq) == prefix \o actor_bytes

make_key(prefix, actor_bytes, seq) == prefix \o actor_bytes \o to_be_bytes(seq)

make_document_key(prefix) == prefix \o DOCUMENT_KEY

(***************************************************************************)
(* Changes                                                                 *)
(***************************************************************************)
Backends == {1, 2}

\* SledPersister.prefix: "1" and "2"
Prefix(b) == IF b = 1 THEN <<49>> ELSE <<50>>

\* ActorId::to_bytes
to_bytes(actor) ==
    CASE actor = "A" -> <<1>>
      [] actor = "B" -> <<2>>
      [] actor = "C" -> <<3>>
      [] actor = "X" -> <<4>>
      [] actor = "P" -> <<5>>
      [] actor = "Q" -> <<6>>

\* A change: its actor, seq, the changes it depends on, and whether the
\* engine accepts it.
Chg(a, s, d, v) == [actor |-> a, seq |-> s, deps |-> d, ok |-> v]

a1 == Chg("A", 1, {}, TRUE)
a2 == Chg("A", 2, {a1}, TRUE)
b1 == Chg("B", 1, {}, TRUE)
c1 == Chg("C", 1, {}, TRUE)
x1 == Chg("X", 1, {}, FALSE)

\* the remote changes offered to each backend
Feed(b) == IF b = 1 THEN {a1, a2, x1} ELSE {c1}

\* the actor of the frontend attached to each backend
LocalActor(b) == IF b = 1 THEN "P" ELSE "Q"

\* Change::raw_bytes and Change::from_bytes
raw_bytes(c) == <<"change", c>>
from_bytes(v) == IF Len(v) = 2 /\ v[1] = "change" THEN <<"Ok", v[2]>> ELSE <<"Err">>

KeyOf(b, c) == make_key(Prefix(b), to_bytes(c.actor), U64Of(c.seq))

(***************************************************************************)
(* sled::Tree                                                              *)
(***************************************************************************)
EmptyTree == [k \in {} |-> 0]

tree_insert(tree, key, value) ==
    [k \in DOMAIN tree \cup {key} |-> IF k = key THEN value ELSE tree[k]]

tree_remove(tree, key) == [k \in DOMAIN tree \ {key} |-> tree[k]]

tree_get(tree, key) == IF key \in DOMAIN tree THEN <<"Some", tree[key]>> ELSE <<"None">>

\* the least key of a non-empty key set, in byte order
MinKey(keys) == CHOOSE k \in keys : \A l \in keys \ {k} : BytesLess(k, l)

\* Tree::iter().values(): the values of a key set, in key order
RECURSIVE ValuesInOrder(_, _)
ValuesInOrder(tree, keys) ==
    IF keys = {} THEN <<>>
    ELSE LET k == MinKey(keys)
         IN  <<tree[k]>> \o ValuesInOrder(tree, keys \ {k})

(***************************************************************************)
(* impl Persister for SledPersister                                        *)
(***************************************************************************)
\* every value of the changes tree, whatever its key
get_changes(tree, prefix) == ValuesInOrder(tree, DOMAIN tree)

\* one turn of the insert_changes loop
insert_one(tree, prefix, c) ==
    tree_insert(tree, make_key(prefix, to_bytes(c.actor), U64Of(c.seq)), raw_bytes(c))

\* a removal that treats a missing record as an error
remove_one_strict(tree, prefix, actor, seq) ==
    LET key == make_key(prefix, to_bytes(actor), U64Of(seq))
    IN  IF key \in DOMAIN tree
        THEN [res |-> "Ok", tree |-> tree_remove(tree, key)]
        ELSE [res |-> "Err", tree |-> tree]

\* a removal that builds its key without the persister's prefix
remove_one_noprefix(tree, prefix, actor, seq) ==
    [res |-> "Ok",
     tree |-> tree_remove(tree, make_key(<<>>, to_bytes(actor), U64Of(seq)))]

\* a removal that removes the change's record under every persister's prefix
remove_one_any_prefix(tree, prefix, actor, seq) ==
    [res |-> "Ok",
     tree |-> [k \in DOMAIN tree
                     \ {make_key(Prefix(b), to_bytes(actor), U64Of(seq)) : b \in Backends}
                 |-> tree[k]]]

\* one turn of the remove_changes loop: the removed value is ignored
remove_one(tree, prefix, actor, seq) ==
    [res |-> "Ok",
     tree |-> tree_remove(tree, make_key(prefix, to_bytes(actor), U64Of(seq)))]

\* remove_changes on a healthy store: ids is a sequence of <<actor, seq>>
RECURSIVE remove_changes(_, _, _)
remove_changes(tree, prefix, ids) ==
    IF ids = <<>> THEN [res |-> "Ok", tree |-> tree]
    ELSE LET r == remove_one(tree, prefix, Head(ids)[1], Head(ids)[2])
         IN  IF r.res = "Ok" THEN remove_changes(r.tree, prefix, Tail(ids))
             ELSE r

get_document(tree, prefix) == tree_get(tree, make_document_key(prefix))

\* a set_document that appends a new record for each snapshot
set_document_append(tree, prefix, data) ==
    tree_insert(tree, make_document_key(prefix) \o <<Cardinality(DOMAIN tree)>>, data)

set_document(tree, prefix, data) == tree_insert(tree, make_document_key(prefix), data)

(***************************************************************************)
(* automerge::Backend, as the PersistentBackend uses it                    *)
(***************************************************************************)
EngineInit == [applied |-> {}, queue |-> {}]

\* apply every queued change whose dependencies are all applied
RECURSIVE Drain(_)
Drain(e) ==
    LET ready == {c \in e.queue : c.deps \subseteq e.applied}
    IN  IF ready = {} THEN [engine |-> e, err |-> FALSE]
        ELSE LET c == CHOOSE r \in ready : TRUE
             IN  IF ~c.ok
                 THEN [engine |-> [e EXCEPT !.queue = @ \ {c}], err |-> TRUE]
                 ELSE Drain([applied |-> e.applied \cup {c}, queue |-> e.queue \ {c}])

\* a change already applied is absorbed; any other is queued and the queue drained
add_change(e, c) ==
    IF c \in e.applied THEN [engine |-> e, err |-> FALSE]
    ELSE Drain([e EXCEPT !.queue = @ \cup {c}])

\* Backend::apply_changes: the batch in order, stopping at the first error
RECURSIVE engine_apply_changes(_, _)
engine_apply_changes(e, cs) ==
    IF cs = <<>> THEN [engine |-> e, err |-> FALSE]
    ELSE LET r == add_change(e, Head(cs))
         IN  IF r.err THEN r ELSE engine_apply_changes(r.engine, Tail(cs))

\* Backend::get_changes(&[]): the applied changes
engine_get_changes(e) == e.applied

\* Backend::save and Backend::load: the applied changes, without the queue
engine_save(e) == [changes |-> e.applied]
engine_load(doc) == [applied |-> doc.changes, queue |-> {}]

\* Backend::get_heads: applied changes no applied change depends on
get_heads(e) == e.applied \ UNION {c.deps : c \in e.applied}

\* Backend::get_missing_deps
get_missing_deps(e) == (UNION {c.deps : c \in e.queue}) \ e.applied

\* Backend::get_patch: the document the applied changes make up
get_patch(e) == <<"patch", e.applied>>

\* Backend::get_changes_for_actor_id
get_changes_for_actor_id(e, actor) == {c \in e.applied : c.actor = actor}

\* the changes a set of changes rests on, themselves included
RECURSIVE Ancestors(_)
Ancestors(S) ==
    LET up == S \cup UNION {c.deps : c \in S}
    IN  IF up = S THEN S ELSE Ancestors(up)

\* Backend::get_changes(have_deps): the applied changes have_deps does not rest on
backend_get_changes(e, have_deps) == e.applied \ Ancestors(have_deps)

\* the change Backend::apply_local_change builds for a local actor
local_change(e, actor) ==
    Chg(actor, 1 + Cardinality({c \in e.applied : c.actor = actor}), get_heads(e), TRUE)

(***************************************************************************)
(* PersistentBackend                                                       *)
(***************************************************************************)
\* Change::from_bytes over every stored value; <<"Err">> if one fails
RECURSIVE decode_all(_)
decode_all(vs) ==
    IF vs = <<>> THEN <<"Ok", <<>>>>
    ELSE LET h == from_bytes(Head(vs))
             t == decode_all(Tail(vs))
         IN  IF h[1] = "Err" \/ t[1] = "Err" THEN <<"Err">>
             ELSE <<"Ok", <<h[2]>> \o t[2]>>

\* a load that replays the change records and never reads the document
load_no_document(ctree, dtree, prefix) ==
    LET changes == decode_all(get_changes(ctree, prefix))
    IN  IF changes[1] = "Err" THEN [engine |-> EngineInit, err |-> TRUE]
        ELSE engine_apply_changes(EngineInit, changes[2])

\* a load that restores the document and never replays the change records
load_no_changes(ctree, dtree, prefix) ==
    LET document == get_document(dtree, prefix)
    IN  [engine |-> IF document[1] = "Some" THEN engine_load(document[2]) ELSE EngineInit,
         err |-> FALSE]

\* the changes of a sequence that the engine would not reject
RECURSIVE accepted_only(_)
accepted_only(cs) ==
    IF cs = <<>> THEN <<>>
    ELSE (IF Head(cs).ok THEN <<Head(cs)>> ELSE <<>>) \o accepted_only(Tail(cs))

\* a load that skips the change records the engine would reject
load_skip_rejected(ctree, dtree, prefix) ==
    LET document == get_document(dtree, prefix)
        e0 == IF document[1] = "Some" THEN engine_load(document[2]) ELSE EngineInit
        changes == decode_all(get_changes(ctree, prefix))
    IN  IF changes[1] = "Err" THEN [engine |-> e0, err |-> TRUE]
        ELSE engine_apply_changes(e0, accepted_only(changes[2]))

\* PersistentBackend::load on a store that answers its reads
load(ctree, dtree, prefix) ==
    LET document == get_document(dtree, prefix)
        e0 == IF document[1] = "Some" THEN engine_load(document[2]) ELSE EngineInit
        changes == decode_all(get_changes(ctree, prefix))
    IN  IF changes[1] = "Err" THEN [engine |-> e0, err |-> TRUE]
        ELSE engine_apply_changes(e0, changes[2])

\* the Vec<Change> values over a set of changes: 1..MaxBatch distinct changes
BatchesOf(S) ==
    {cs \in UNION {[1..n -> S] : n \in 1..MaxBatch} :
        \A i, j \in 1..Len(cs) : i # j => cs[i] # cs[j]}

\* the batches handed to apply_changes
Batches(b) == BatchesOf(Feed(b))

\* the call returns res to its caller
Done(b, op, res) ==
    /\ pc' = [pc EXCEPT ![b] = "ret"]
    /\ result' = [result EXCEPT ![b] = <<op, res>>]
    /\ batch' = [batch EXCEPT ![b] = <<>>]
    /\ idx' = [idx EXCEPT ![b] = 0]
    /\ todo' = [todo EXCEPT ![b] = {}]

\* a load that removes the change records the snapshot it restored covers
LoadPruning(b) ==
    /\ pc[b] = "down"
    /\ \E io \in {"ok", "get_document_err", "get_changes_err"} :
        IF io # "ok"
        THEN /\ result' = [result EXCEPT ![b] = <<"load", "PersisterError">>]
             /\ UNCHANGED <<backend, pc, changes_tree>>
        ELSE LET r == load(changes_tree, document_tree, Prefix(b))
                 document == get_document(document_tree, Prefix(b))
                 covered == IF document[1] = "Some" THEN document[2].changes ELSE {}
             IN  IF r.err
                 THEN /\ result' = [result EXCEPT ![b] = <<"load", "EngineError">>]
                      /\ UNCHANGED <<backend, pc, changes_tree>>
                 ELSE /\ result' = [result EXCEPT ![b] = <<"load", "Ok">>]
                      /\ backend' = [backend EXCEPT ![b] = r.engine]
                      /\ pc' = [pc EXCEPT ![b] = "ret"]
                      /\ changes_tree' =
                             [k \in DOMAIN changes_tree \ {KeyOf(b, c) : c \in covered}
                                 |-> changes_tree[k]]
    /\ UNCHANGED <<document_tree, batch, idx, todo, clean, inp, out>>

\* PersistentBackend::load
Load(b) ==
    /\ pc[b] = "down"
    /\ \E io \in {"ok", "get_document_err", "get_changes_err"} :
        IF io # "ok"
        THEN /\ result' = [result EXCEPT ![b] = <<"load", "PersisterError">>]
             /\ UNCHANGED <<backend, pc>>
        ELSE LET r == load(changes_tree, document_tree, Prefix(b))
             IN  IF r.err
                 THEN /\ result' = [result EXCEPT ![b] = <<"load", "EngineError">>]
                      /\ UNCHANGED <<backend, pc>>
                 ELSE /\ result' = [result EXCEPT ![b] = <<"load", "Ok">>]
                      /\ backend' = [backend EXCEPT ![b] = r.engine]
                      /\ pc' = [pc EXCEPT ![b] = "ret"]
    /\ UNCHANGED <<changes_tree, document_tree, batch, idx, todo, clean, inp, out>>

\* the caller has taken the returned value
Return(b) ==
    /\ pc[b] = "ret"
    /\ pc' = [pc EXCEPT ![b] = "idle"]
    /\ result' = [result EXCEPT ![b] = <<"none", "none">>]
    /\ UNCHANGED <<changes_tree, document_tree, backend, batch, idx, todo, clean, inp, out>>

\* the process holding backend b dies: its memory is lost, storage stays
Crash(b) ==
    /\ pc[b] # "down"
    /\ backend' = [backend EXCEPT ![b] = EngineInit]
    /\ pc' = [pc EXCEPT ![b] = "down"]
    /\ result' = [result EXCEPT ![b] = <<"none", "none">>]
    /\ batch' = [batch EXCEPT ![b] = <<>>]
    /\ idx' = [idx EXCEPT ![b] = 0]
    /\ todo' = [todo EXCEPT ![b] = {}]
    /\ clean' = (clean /\ pc[b] \notin {"ac_insert", "ac_apply", "al_insert"})
    /\ UNCHANGED <<changes_tree, document_tree, inp, out>>

\* apply_changes that touches the engine before anything is stored
ApplyChangesBeginEngineFirst(b, cs) ==
    /\ pc[b] = "idle"
    /\ pc' = [pc EXCEPT ![b] = "ac_insert"]
    /\ batch' = [batch EXCEPT ![b] = cs]
    /\ idx' = [idx EXCEPT ![b] = 1]
    /\ backend' = [backend EXCEPT ![b] = engine_apply_changes(@, cs).engine]
    /\ UNCHANGED <<changes_tree, document_tree, todo, result, clean, inp, out>>

\* apply_changes is called with the batch cs: the insert loop comes first
ApplyChangesBegin(b, cs) ==
    /\ pc[b] = "idle"
    /\ pc' = [pc EXCEPT ![b] = "ac_insert"]
    /\ batch' = [batch EXCEPT ![b] = cs]
    /\ idx' = [idx EXCEPT ![b] = 1]
    /\ UNCHANGED <<changes_tree, document_tree, backend, todo, result, clean, inp, out>>

\* an insert loop that hands each change to the engine as soon as it is stored
InsertStepThenApply(b) ==
    /\ pc[b] \in {"ac_insert", "al_insert"}
    /\ LET op == IF pc[b] = "ac_insert" THEN "apply_changes" ELSE "apply_local_change"
       IN  \E io \in BOOLEAN :
            IF ~io
            THEN /\ Done(b, op, "PersisterError")
                 /\ clean' = FALSE
                 /\ UNCHANGED <<changes_tree, backend>>
            ELSE /\ changes_tree' = insert_one(changes_tree, Prefix(b), batch[b][idx[b]])
                 /\ backend' = [backend EXCEPT ![b] = add_change(@, batch[b][idx[b]]).engine]
                 /\ clean' = clean
                 /\ IF idx[b] < Len(batch[b])
                    THEN /\ idx' = [idx EXCEPT ![b] = @ + 1]
                         /\ UNCHANGED <<pc, batch, todo, result>>
                    ELSE IF pc[b] = "ac_insert"
                         THEN /\ pc' = [pc EXCEPT ![b] = "ac_apply"]
                              /\ UNCHANGED <<batch, idx, todo, result>>
                         ELSE Done(b, op, "Ok")
    /\ UNCHANGED <<document_tree, inp, out>>

\* an insert loop that returns Ok after storing the first change of the batch
InsertStepFirstOnly(b) ==
    /\ pc[b] \in {"ac_insert", "al_insert"}
    /\ LET op == IF pc[b] = "ac_insert" THEN "apply_changes" ELSE "apply_local_change"
       IN  \E io \in BOOLEAN :
            IF ~io
            THEN /\ Done(b, op, "PersisterError")
                 /\ clean' = FALSE
                 /\ UNCHANGED changes_tree
            ELSE /\ changes_tree' = insert_one(changes_tree, Prefix(b), batch[b][idx[b]])
                 /\ clean' = clean
                 /\ IF pc[b] = "ac_insert"
                    THEN /\ pc' = [pc EXCEPT ![b] = "ac_apply"]
                         /\ UNCHANGED <<batch, idx, todo, result>>
                    ELSE Done(b, op, "Ok")
    /\ UNCHANGED <<document_tree, backend, inp, out>>

\* one turn of insert_changes, inside apply_changes or apply_local_change
InsertStep(b) ==
    /\ pc[b] \in {"ac_insert", "al_insert"}
    /\ LET op == IF pc[b] = "ac_insert" THEN "apply_changes" ELSE "apply_local_change"
       IN  \E io \in BOOLEAN :
            IF ~io
            THEN /\ Done(b, op, "PersisterError")
                 /\ clean' = FALSE
                 /\ UNCHANGED changes_tree
            ELSE /\ changes_tree' = insert_one(changes_tree, Prefix(b), batch[b][idx[b]])
                 /\ clean' = clean
                 /\ IF idx[b] < Len(batch[b])
                    THEN /\ idx' = [idx EXCEPT ![b] = @ + 1]
                         /\ UNCHANGED <<pc, batch, todo, result>>
                    ELSE IF pc[b] = "ac_insert"
                         THEN /\ pc' = [pc EXCEPT ![b] = "ac_apply"]
                              /\ UNCHANGED <<batch, idx, todo, result>>
                         ELSE Done(b, op, "Ok")
    /\ UNCHANGED <<document_tree, backend, inp, out>>

\* apply_changes, after insert_changes returned Ok: the engine applies the batch
EngineApplyStep(b) ==
    /\ pc[b] = "ac_apply"
    /\ LET r == engine_apply_changes(backend[b], batch[b])
       IN  /\ backend' = [backend EXCEPT ![b] = r.engine]
           /\ Done(b, "apply_changes", IF r.err THEN "EngineError" ELSE "Ok")
           /\ clean' = (clean /\ ~r.err)
    /\ UNCHANGED <<changes_tree, document_tree, inp, out>>

\* (actor_id, seq) names one change only: c shares its pair with no other
\* change the engine holds or the changes tree stores
UniquePair(b, c) ==
    \A d \in backend[b].applied \cup backend[b].queue
             \cup {changes_tree[k][2] : k \in DOMAIN changes_tree} :
        (d.actor = c.actor /\ d.seq = c.seq) => d = c

\* apply_local_change that builds the change and leaves the engine untouched
\* until the change is stored
ApplyLocalChangePersistFirst(b) ==
    /\ pc[b] = "idle"
    /\ \E accepted \in BOOLEAN :
        IF ~accepted
        THEN /\ Done(b, "apply_local_change", "EngineError")
             /\ UNCHANGED backend
        ELSE LET c == local_change(backend[b], LocalActor(b))
             IN  /\ c.seq <= MaxLocalSeq
                 /\ UniquePair(b, c)
                 /\ UNCHANGED backend
                 /\ pc' = [pc EXCEPT ![b] = "al_insert"]
                 /\ batch' = [batch EXCEPT ![b] = <<c>>]
                 /\ idx' = [idx EXCEPT ![b] = 1]
                 /\ UNCHANGED <<todo, result>>
    /\ UNCHANGED <<changes_tree, document_tree, clean, inp, out>>

\* apply_local_change: the engine first, then insert_changes
ApplyLocalChange(b) ==
    /\ pc[b] = "idle"
    /\ \E accepted \in BOOLEAN :
        IF ~accepted
        THEN /\ Done(b, "apply_local_change", "EngineError")
             /\ UNCHANGED backend
        ELSE LET c == local_change(backend[b], LocalActor(b))
             IN  /\ c.seq <= MaxLocalSeq
                 /\ UniquePair(b, c)
                 /\ backend' = [backend EXCEPT ![b] = add_change(@, c).engine]
                 /\ pc' = [pc EXCEPT ![b] = "al_insert"]
                 /\ batch' = [batch EXCEPT ![b] = <<c>>]
                 /\ idx' = [idx EXCEPT ![b] = 1]
                 /\ UNCHANGED <<todo, result>>
    /\ UNCHANGED <<changes_tree, document_tree, clean, inp, out>>

\* compact that goes on to remove the changes without storing the document
CompactSetDocumentSkipped(b) ==
    /\ pc[b] = "idle"
    /\ pc' = [pc EXCEPT ![b] = "cp_remove"]
    /\ todo' = [todo EXCEPT ![b] = engine_get_changes(backend[b])]
    /\ UNCHANGED <<changes_tree, document_tree, backend, batch, idx, result, clean, inp, out>>

\* compact that marks for removal every change the engine holds, pending or not
CompactSetDocumentTodoAll(b) ==
    /\ pc[b] = "idle"
    /\ document_tree' = set_document(document_tree, Prefix(b), engine_save(backend[b]))
    /\ pc' = [pc EXCEPT ![b] = "cp_remove"]
    /\ todo' = [todo EXCEPT ![b] = backend[b].applied \cup backend[b].queue]
    /\ UNCHANGED <<changes_tree, backend, batch, idx, result, clean, inp, out>>

\* compact that removes the change records before it stores the document
CompactSetDocumentRemoveFirst(b) ==
    /\ pc[b] = "idle"
    /\ \E o \in {"ok", "save_err", "set_document_err"} :
        LET ids == engine_get_changes(backend[b])
            removed == [k \in DOMAIN changes_tree \ {KeyOf(b, c) : c \in ids}
                           |-> changes_tree[k]]
        IN  CASE o = "save_err" ->
                   /\ Done(b, "compact", "EngineError")
                   /\ UNCHANGED <<changes_tree, document_tree>>
              [] o = "set_document_err" ->
                   /\ Done(b, "compact", "PersisterError")
                   /\ changes_tree' = removed
                   /\ UNCHANGED document_tree
              [] o = "ok" ->
                   /\ changes_tree' = removed
                   /\ document_tree' =
                          set_document(document_tree, Prefix(b), engine_save(backend[b]))
                   /\ pc' = [pc EXCEPT ![b] = "cp_remove"]
                   /\ todo' = [todo EXCEPT ![b] = {}]
                   /\ UNCHANGED <<batch, idx, result>>
    /\ UNCHANGED <<backend, clean, inp, out>>

\* compact that removes only the changes the stored snapshot did not hold yet
CompactSetDocumentIncremental(b) ==
    /\ pc[b] = "idle"
    /\ \E o \in {"ok", "save_err", "set_document_err"} :
        CASE o = "save_err" ->
                /\ Done(b, "compact", "EngineError")
                /\ UNCHANGED document_tree
          [] o = "set_document_err" ->
                /\ Done(b, "compact", "PersisterError")
                /\ UNCHANGED document_tree
          [] o = "ok" ->
                /\ document_tree' =
                       set_document(document_tree, Prefix(b), engine_save(backend[b]))
                /\ pc' = [pc EXCEPT ![b] = "cp_remove"]
                /\ todo' = [todo EXCEPT ![b] =
                       engine_get_changes(backend[b])
                           \ (IF get_document(document_tree, Prefix(b))[1] = "Some"
                              THEN get_document(document_tree, Prefix(b))[2].changes
                              ELSE {})]
                /\ UNCHANGED <<batch, idx, result>>
    /\ UNCHANGED <<changes_tree, backend, clean, inp, out>>

\* compact, up to set_document: get_changes(&[]), save, set_document
CompactSetDocument(b) ==
    /\ pc[b] = "idle"
    /\ \E o \in {"ok", "save_err", "set_document_err"} :
        CASE o = "save_err" ->
                /\ Done(b, "compact", "EngineError")
                /\ UNCHANGED document_tree
          [] o = "set_document_err" ->
                /\ Done(b, "compact", "PersisterError")
                /\ UNCHANGED document_tree
          [] o = "ok" ->
                /\ document_tree' =
                       set_document(document_tree, Prefix(b), engine_save(backend[b]))
                /\ pc' = [pc EXCEPT ![b] = "cp_remove"]
                /\ todo' = [todo EXCEPT ![b] = engine_get_changes(backend[b])]
                /\ UNCHANGED <<batch, idx, result>>
    /\ UNCHANGED <<changes_tree, backend, clean, inp, out>>

\* compact, the remove_changes loop: one record per step, in the engine's order
CompactRemove(b) ==
    /\ pc[b] = "cp_remove"
    /\ IF todo[b] = {}
       THEN /\ Done(b, "compact", "Ok")
            /\ UNCHANGED changes_tree
       ELSE \E c \in todo[b], io \in BOOLEAN :
            LET r == remove_one(changes_tree, Prefix(b), c.actor, c.seq)
            IN  IF ~io \/ r.res # "Ok"
                THEN /\ Done(b, "compact", "PersisterError")
                     /\ UNCHANGED changes_tree
                ELSE /\ changes_tree' = r.tree
                     /\ todo' = [todo EXCEPT ![b] = @ \ {c}]
                     /\ UNCHANGED <<pc, batch, idx, result>>
    /\ UNCHANGED <<document_tree, backend, clean, inp, out>>

\* a query: the engine's answer goes back to the caller, nothing is written
Queries ==
    {"get_patch", "get_changes_for_actor_id", "get_changes", "get_missing_deps", "get_heads"}

\* a get_missing_deps that gives up the pending changes it reports on
GetMissingDepsForgetting(b) ==
    /\ pc[b] = "idle"
    /\ Done(b, "get_missing_deps", get_missing_deps(backend[b]))
    /\ backend' = [backend EXCEPT ![b].queue = {}]
    /\ UNCHANGED <<changes_tree, document_tree, clean, inp, out>>

GetPatch(b) ==
    /\ pc[b] = "idle"
    /\ \E ok \in BOOLEAN :
          Done(b, "get_patch", IF ok THEN get_patch(backend[b]) ELSE "EngineError")
    /\ UNCHANGED <<changes_tree, document_tree, backend, clean, inp, out>>

GetChangesForActorId(b) ==
    /\ pc[b] = "idle"
    /\ \E actor \in {"A", LocalActor(b)}, ok \in BOOLEAN :
          Done(b, "get_changes_for_actor_id",
               IF ok THEN get_changes_for_actor_id(backend[b], actor) ELSE "EngineError")
    /\ UNCHANGED <<changes_tree, document_tree, backend, clean, inp, out>>

GetChanges(b) ==
    /\ pc[b] = "idle"
    /\ \E have_deps \in {{}} \cup {{c} : c \in backend[b].applied} :
          Done(b, "get_changes", backend_get_changes(backend[b], have_deps))
    /\ UNCHANGED <<changes_tree, document_tree, backend, clean, inp, out>>

GetMissingDeps(b) ==
    /\ pc[b] = "idle"
    /\ Done(b, "get_missing_deps", get_missing_deps(backend[b]))
    /\ UNCHANGED <<changes_tree, document_tree, backend, clean, inp, out>>

GetHeads(b) ==
    /\ pc[b] = "idle"
    /\ Done(b, "get_heads", get_heads(backend[b]))
    /\ UNCHANGED <<changes_tree, document_tree, backend, clean, inp, out>>

CoreInit ==
    /\ changes_tree = EmptyTree
    /\ document_tree = EmptyTree
    /\ backend = [b \in Backends |-> EngineInit]
    /\ pc = [b \in Backends |-> "down"]
    /\ batch = [b \in Backends |-> <<>>]
    /\ idx = [b \in Backends |-> 0]
    /\ todo = [b \in Backends |-> {}]
    /\ result = [b \in Backends |-> <<"none", "none">>]
    /\ clean = TRUE

Init ==
    /\ CoreInit
    /\ inp = <<>>
    /\ out = <<>>

\* the steps every specification has: load, crash, and the steps inside a call
CallStep(b) ==
    \/ Load(b)
    \/ Return(b)
    \/ Crash(b)
    \/ InsertStep(b)
    \/ EngineApplyStep(b)
    \/ CompactSetDocument(b)
    \/ CompactRemove(b)

\* one backend, alone on its trees, fed remote changes only, of two actors
\* and one the engine rejects
RemoteFeed == Feed(1) \cup {b1}
NextRemote ==
    \/ CallStep(1)
    \/ \E cs \in BatchesOf(RemoteFeed) : ApplyChangesBegin(1, cs)
SpecRemote == Init /\ [][NextRemote]_vars

\* one backend, alone on its trees
Next ==
    \/ CallStep(1)
    \/ \E cs \in Batches(1) : ApplyChangesBegin(1, cs)
    \/ ApplyLocalChange(1)
Spec == Init /\ [][Next]_vars

\* one backend alone, with the queries among its calls
NextQuery ==
    \/ Next
    \/ GetPatch(1)
    \/ GetChangesForActorId(1)
    \/ GetChanges(1)
    \/ GetMissingDeps(1)
    \/ GetHeads(1)
SpecQuery == Init /\ [][NextQuery]_vars

\* two backends, prefixes "1" and "2", on the same two trees; each is fed
\* its own document's changes, and backend 1 also takes local changes
SharedFeed(b) == IF b = 1 THEN {a1} ELSE {c1}
NextShared ==
    \E b \in Backends :
        \/ CallStep(b)
        \/ \E cs \in BatchesOf(SharedFeed(b)) : ApplyChangesBegin(b, cs)
        \/ b = 1 /\ ApplyLocalChange(b)
SpecShared == Init /\ [][NextShared]_vars

\* the same two backends on the same two trees, with one writer of each
\* kind: backend 1 takes local changes, backend 2 is fed remote changes;
\* both load, compact and crash
NextPair ==
    \E b \in Backends :
        \/ CallStep(b)
        \/ b = 2 /\ \E cs \in BatchesOf(SharedFeed(b)) : ApplyChangesBegin(b, cs)
        \/ b = 1 /\ ApplyLocalChange(b)
SpecPair == Init /\ [][NextPair]_vars

(***************************************************************************)
(* The key encoding and remove_changes, on inputs of their own             *)
(***************************************************************************)
\* the byte strings over an alphabet with lengths lo..hi
ByteStrings(alphabet, lo, hi) == UNION {[1..n -> alphabet] : n \in lo..hi}

\* "1" and "2" as bytes
KeyBytes == {49, 50}
KeyPrefixes == ByteStrings(KeyBytes, 0, MaxPrefixLen)
KeyActors == ByteStrings(KeyBytes, 1, MaxActorLen)
\* 0, 1, 255, 256, 65536 and u64::MAX
KeySeqs ==
    {<<0, 0, 0, 0>>, <<0, 0, 0, 1>>, <<0, 0, 0, 255>>, <<0, 0, 0, 256>>,
     <<0, 0, 1, 0>>, <<65535, 65535, 65535, 65535>>}
Triples == [prefix : KeyPrefixes, actor : KeyActors, seq : KeySeqs]

KeyInit ==
    /\ CoreInit
    /\ inp \in [t1 : Triples, t2 : Triples]
    /\ out = <<>>

\* make_key on both triples
Encode ==
    /\ out = <<>>
    /\ out' = <<make_key(inp.t1.prefix, inp.t1.actor, inp.t1.seq),
                make_key(inp.t2.prefix, inp.t2.actor, inp.t2.seq)>>
    /\ UNCHANGED <<coreVars, inp>>

SpecKey == KeyInit /\ [][Encode]_vars

\* the changes whose records the tree may hold, and the identifiers passed
RemoveUniverse == {a1, a2, c1, x1}
RemoveIds == {<<c.actor, c.seq>> : c \in RemoveUniverse}

\* the changes tree of persister "1" holding the records of the changes in S
TreeOf(S) ==
    [k \in {KeyOf(1, c) : c \in S} |->
        raw_bytes(CHOOSE c \in S : KeyOf(1, c) = k)]

RemoveInit ==
    /\ CoreInit
    /\ \E S \in SUBSET RemoveUniverse :
       \E ids \in UNION {[1..n -> RemoveIds] : n \in 1..MaxIds} :
            inp = [tree |-> TreeOf(S), ids |-> ids]
    /\ out = <<>>

\* remove_changes(ids) on the tree as the previous call left it, twice at most
RemoveCall ==
    /\ Len(out) < 2
    /\ LET tree == IF out = <<>> THEN inp.tree ELSE out[Len(out)].tree
       IN  out' = Append(out, remove_changes(tree, Prefix(1), inp.ids))
    /\ UNCHANGED <<coreVars, inp>>

SpecRemove == RemoveInit /\ [][RemoveCall]_vars

(***************************************************************************)
(* What storage holds                                                      *)
(***************************************************************************)
InNamespace(k, prefix) == Len(k) >= Len(prefix) /\ SubSeq(k, 1, Len(prefix)) = prefix

\* the changes whose records persister b's get_changes returns
StoredChanges(b) ==
    LET vs == get_changes(changes_tree, Prefix(b))
    IN  {from_bytes(vs[i])[2] : i \in 1..Len(vs)}

\* the changes held by the snapshot of backend b, if one is stored
SnapshotChanges(dtree, b) ==
    LET d == get_document(dtree, Prefix(b))
    IN  IF d[1] = "Some" THEN d[2].changes ELSE {}

\* what load would return from the trees given: an engine, or the error
LoadOutcome(ctree, dtree, b) ==
    LET r == load(ctree, dtree, Prefix(b))
    IN  IF r.err THEN <<"EngineError">> ELSE <<"Ok", r.engine>>

\* the changes tree once every record compact still has to remove is gone
AfterRemoval(b) ==
    [k \in DOMAIN changes_tree \ {KeyOf(b, c) : c \in todo[b]} |-> changes_tree[k]]

(***************************************************************************)
(* Claims                                                                  *)
(***************************************************************************)

\* C1: with only apply_changes and compact (and crashes between any two
\* steps), every change the in-memory engine holds is retrievable from
\* storage, as a change record or in the stored snapshot; and at the crash
\* point between insert_changes and the engine's apply, every change of the
\* batch is stored, so a load that succeeds yields an engine holding it.
C1_PersistBeforeApply ==
    \A b \in Backends :
        /\ pc[b] # "down" =>
              (backend[b].applied \cup backend[b].queue)
                  \subseteq (StoredChanges(b) \cup SnapshotChanges(document_tree, b))
        /\ pc[b] = "ac_apply" =>
              LET o == LoadOutcome(changes_tree, document_tree, b)
              IN  \A i \in 1..Len(batch[b]) :
                     /\ batch[b][i] \in StoredChanges(b)
                     /\ o[1] = "Ok" => batch[b][i] \in (o[2].applied \cup o[2].queue)

\* C1 witness: the crash point between the two steps, with a change of the
\* batch stored, not yet in the engine, and in the engine a load would build.
C1_Witness ==
    /\ pc[1] = "ac_apply"
    /\ backend[1].applied # {}
    /\ LET o == LoadOutcome(changes_tree, document_tree, 1)
       IN  /\ o[1] = "Ok"
           /\ \E i \in 1..Len(batch[1]) :
                 /\ batch[1][i] \notin backend[1].applied
                 /\ batch[1][i] \in o[2].applied

\* C2: a step removes a change record only when the snapshot in storage
\* after the step covers that change, and the stored snapshot never loses a
\* change; so every record compact has removed stays covered by the stored
\* snapshot, at every crash point.
C2_RemoveAfterSnapshot ==
    [][\A b \in Backends :
          /\ \A k \in DOMAIN changes_tree \ DOMAIN changes_tree' :
                InNamespace(k, Prefix(b)) =>
                    from_bytes(changes_tree[k])[2] \in SnapshotChanges(document_tree', b)
          /\ SnapshotChanges(document_tree, b) \subseteq SnapshotChanges(document_tree', b)
      ]_vars

\* C2 witness: a crash point inside compact's removal loop: one record of a
\* remote change is already gone, others are still to be removed.
C2_Witness ==
    /\ pc[1] = "cp_remove"
    /\ todo[1] # {}
    /\ \E c \in Feed(1) :
          /\ c \in SnapshotChanges(document_tree, 1)
          /\ c \notin todo[1]
          /\ KeyOf(1, c) \notin DOMAIN changes_tree

\* C3: at every crash point of compact after set_document succeeded (none,
\* some or all of the redundant records still stored), load returns what it
\* returns once compact has removed them all.
C3_CompactCrashSafe ==
    \A b \in Backends :
        pc[b] = "cp_remove" =>
            LoadOutcome(changes_tree, document_tree, b)
                = LoadOutcome(AfterRemoval(b), document_tree, b)

\* C3 witness: set_document has succeeded, remove_changes has not run: the
\* snapshot and the records it makes redundant are both stored, and load
\* succeeds.
C3_Witness ==
    /\ pc[1] = "cp_remove"
    /\ todo[1] = backend[1].applied
    /\ \E c \in todo[1] : KeyOf(1, c) \in DOMAIN changes_tree
    /\ backend[1].queue # {}
    /\ LoadOutcome(changes_tree, document_tree, 1)[1] = "Ok"

\* C4: when every apply call so far succeeded and compact returns Ok, a load
\* from the same persister succeeds and gives an engine with the same applied
\* changes and the same heads as the engine that was compacted.
C4_RoundTrip ==
    \A b \in Backends :
        (pc[b] = "ret" /\ result[b] = <<"compact", "Ok">> /\ clean) =>
            LET o == LoadOutcome(changes_tree, document_tree, b)
            IN  /\ o[1] = "Ok"
                /\ o[2].applied = backend[b].applied
                /\ get_heads(o[2]) = get_heads(backend[b])

\* C4 witness: compact returned Ok on an engine holding a remote and a local
\* change, after successful applies only.
C4_Witness ==
    /\ pc[1] = "ret"
    /\ result[1] = <<"compact", "Ok">>
    /\ clean
    /\ \E c, d \in backend[1].applied : c.actor = "A" /\ d.actor = LocalActor(1)

\* the keys of a tree that lie in backend b's namespace
NamespaceKeys(tree, b) == {k \in DOMAIN tree : InNamespace(k, Prefix(b))}

\* C5 as stated: when every apply call so far succeeded and compact returns
\* Ok, the namespace holds exactly one snapshot record and no change record.
C5_AsStated ==
    \A b \in Backends :
        (pc[b] = "ret" /\ result[b] = <<"compact", "Ok">> /\ clean) =>
            /\ Cardinality(NamespaceKeys(document_tree, b)) = 1
            /\ NamespaceKeys(changes_tree, b) = {}

\* C5 amended: when every apply call so far succeeded and compact returns
\* Ok, the namespace holds exactly one snapshot record, no record of a change
\* the engine has applied, and exactly the records of the changes the engine
\* holds pending on missing dependencies.
C5_CompactLeavesPending ==
    \A b \in Backends :
        (pc[b] = "ret" /\ result[b] = <<"compact", "Ok">> /\ clean) =>
            /\ NamespaceKeys(document_tree, b) = {make_document_key(Prefix(b))}
            /\ \A c \in backend[b].applied : KeyOf(b, c) \notin DOMAIN changes_tree
            /\ NamespaceKeys(changes_tree, b) = {KeyOf(b, c) : c \in backend[b].queue}
            /\ \A c \in backend[b].queue : changes_tree[KeyOf(b, c)] = raw_bytes(c)

\* C5 witness: compact returned Ok after successful applies; the engine has
\* applied changes, whose records are gone, and holds one pending, whose
\* record is still stored.
C5_Witness ==
    /\ pc[1] = "ret"
    /\ result[1] = <<"compact", "Ok">>
    /\ clean
    /\ backend[1].applied # {}
    /\ backend[1].queue # {}
    /\ NamespaceKeys(changes_tree, 1) # {}

\* the changes applied to backend 1 under the shared-store specification
GivenToFirst(c) == c \in SharedFeed(1) \/ c.actor = LocalActor(1)

\* C6: on shared trees, no change applied to backend 1 is among the changes
\* of backend 2's engine (get_changes(&[])), or among those it holds pending.
C6_NamespaceIsolation ==
    \A c \in backend[2].applied \cup backend[2].queue : ~GivenToFirst(c)

\* C7 as stated: distinct (prefix, actor_id, seq) triples have distinct keys.
C7_AsStated ==
    (out # <<>> /\ inp.t1 # inp.t2) => out[1] # out[2]

\* C7 amended: distinct triples whose prefixes have the same length (the
\* same prefix being one case), or whose actor ids have the same length,
\* have distinct keys.
C7_InjectiveFixedLength ==
    (/\ out # <<>>
     /\ inp.t1 # inp.t2
     /\ \/ Len(inp.t1.prefix) = Len(inp.t2.prefix)
        \/ Len(inp.t1.actor) = Len(inp.t2.actor))
        => out[1] # out[2]

\* C7 witness: keys made under one non-empty prefix for actor ids of
\* different lengths, the shorter a prefix of the longer.
C7_Witness ==
    /\ out # <<>>
    /\ inp.t1.prefix = inp.t2.prefix
    /\ inp.t1.prefix # <<>>
    /\ Len(inp.t1.actor) < Len(inp.t2.actor)
    /\ SubSeq(inp.t2.actor, 1, Len(inp.t1.actor)) = inp.t1.actor
    /\ out[1] # out[2]

\* C8: for one prefix and one actor id, seq1 < seq2 as u64 values gives
\* make_key(seq1) < make_key(seq2) in lexicographic byte order.
C8_KeysMonotonic ==
    (/\ out # <<>>
     /\ inp.t1.prefix = inp.t2.prefix
     /\ inp.t1.actor = inp.t2.actor
     /\ U64Less(inp.t1.seq, inp.t2.seq))
        => BytesLess(out[1], out[2])

\* C8 witness: the keys of seq 255 and seq 256 under one prefix and actor.
C8_Witness ==
    /\ out # <<>>
    /\ inp.t1.prefix = inp.t2.prefix
    /\ inp.t1.actor = inp.t2.actor
    /\ inp.t1.seq = <<0, 0, 0, 255>>
    /\ inp.t2.seq = <<0, 0, 0, 256>>
    /\ BytesLess(out[1], out[2])

\* C9: remove_changes returns Ok whether or not its identifiers have
\* records, and a second call with the same identifiers returns Ok and
\* leaves the tree as the first call left it.
C9_RemoveIdempotent ==
    /\ \A i \in 1..Len(out) : out[i].res = "Ok"
    /\ Len(out) = 2 => out[2].tree = out[1].tree

\* C9 witness: two calls done, on identifiers of which one had a record that
\* the first call removed and one had none, with another record left stored.
C9_Witness ==
    /\ Len(out) = 2
    /\ \E i, j \in 1..Len(inp.ids) :
          /\ make_key(Prefix(1), to_bytes(inp.ids[i][1]), U64Of(inp.ids[i][2]))
                \in DOMAIN inp.tree
          /\ make_key(Prefix(1), to_bytes(inp.ids[j][1]), U64Of(inp.ids[j][2]))
                \notin DOMAIN inp.tree
    /\ DOMAIN out[1].tree # DOMAIN inp.tree
    /\ DOMAIN out[2].tree # {}

\* C10: from the start of apply_changes to the failure of insert_changes
\* the engine is not touched, and the call then returns PersisterError.
C10_InsertFailureLeavesEngine ==
    [][\A b \in Backends :
          /\ (pc[b] \in {"idle", "ac_insert"} /\ pc'[b] = "ac_insert")
                => backend'[b] = backend[b]
          /\ (pc[b] = "ac_insert" /\ pc'[b] = "ret")
                => /\ result'[b] = <<"apply_changes", "PersisterError">>
                   /\ backend'[b] = backend[b]
      ]_vars

\* C10 witness: apply_changes returned PersisterError after part of the
\* batch was stored; the stored change is not in the engine.
C10_Witness ==
    /\ pc[1] = "ret"
    /\ result[1] = <<"apply_changes", "PersisterError">>
    /\ \E c \in StoredChanges(1) : c \notin backend[1].applied \cup backend[1].queue

\* C11: when load has succeeded, the engine holds exactly the changes of
\* the stored snapshot (none if no snapshot is stored) together with every
\* change record get_changes returns: the snapshot's changes are applied,
\* every stored change is applied or waits in the queue for a dependency
\* that is not applied, and the engine holds nothing else.
C11_LoadRestoresAll ==
    \A b \in Backends :
        (pc[b] = "ret" /\ result[b] = <<"load", "Ok">>) =>
            LET snap == SnapshotChanges(document_tree, b)
                e == backend[b]
            IN  /\ e.applied \cup e.queue = snap \cup StoredChanges(b)
                /\ snap \subseteq e.applied
                /\ \A c \in e.queue : ~(c.deps \subseteq e.applied)

\* C11 witness: a successful load from a store holding a snapshot and a
\* change record the snapshot does not cover.
C11_Witness ==
    /\ pc[1] = "ret"
    /\ result[1] = <<"load", "Ok">>
    /\ SnapshotChanges(document_tree, 1) # {}
    /\ \E c \in StoredChanges(1) :
          c \notin SnapshotChanges(document_tree, 1) /\ c \in backend[1].applied

\* C12: in the step where apply_changes returns EngineError, every change
\* of the batch is in storage under its own key with its own bytes, so it
\* is among the changes the next load reads and hands to the engine; an
\* engine that load returns from that store holds every one of them.
C12_RejectedBatchStored ==
    [][\A b \in Backends :
          (pc[b] = "ac_apply" /\ pc'[b] = "ret"
              /\ result'[b] = <<"apply_changes", "EngineError">>) =>
              LET vs == get_changes(changes_tree', Prefix(b))
                  o == LoadOutcome(changes_tree', document_tree', b)
              IN  \A i \in 1..Len(batch[b]) :
                     /\ tree_get(changes_tree', KeyOf(b, batch[b][i]))
                            = <<"Some", raw_bytes(batch[b][i])>>
                     /\ \E j \in 1..Len(vs) : from_bytes(vs[j]) = <<"Ok", batch[b][i]>>
                     /\ o[1] = "Ok" => batch[b][i] \in o[2].applied \cup o[2].queue
      ]_vars

\* C12 witness: apply_changes has returned EngineError; a change the engine
\* rejected and a change of the same batch it applied are both stored.
C12_Witness ==
    /\ pc[1] = "ret"
    /\ result[1] = <<"apply_changes", "EngineError">>
    /\ \E c, d \in StoredChanges(1) :
          /\ ~c.ok /\ c \notin backend[1].applied \cup backend[1].queue
          /\ d.ok /\ d \in backend[1].applied

C14_FailedCompactLeavesStorage ==
    [][\A b \in Backends :
          (pc[b] = "idle" /\ pc'[b] \in {"ret", "down"}
              /\ (pc'[b] = "ret" => result'[b][1] = "compact")) =>
              /\ changes_tree' = changes_tree
              /\ document_tree' = document_tree
      ]_vars

\* C14 witness: compact has returned PersisterError from set_document: the
\* stored snapshot is an older one than the engine would have saved, and
\* the records of the changes it lacks are all still stored.
C14_Witness ==
    /\ pc[1] = "ret"
    /\ result[1] = <<"compact", "PersisterError">>
    /\ get_document(document_tree, Prefix(1))[1] = "Some"
    /\ SnapshotChanges(document_tree, 1) # backend[1].applied
    /\ \A c \in backend[1].applied \ SnapshotChanges(document_tree, 1) :
          KeyOf(1, c) \in DOMAIN changes_tree

\* C15: in the step where compact's remove_changes fails, every change
\* whose record it had still to remove is in the stored snapshot; and
\* whenever a compact returns Ok, on the same backend or on one loaded
\* from the store later, no record is left of any change the stored
\* snapshot holds, the leftovers of earlier failed removals included.
C15_LeftoversCoveredAndRetried ==
    [][\A b \in Backends :
          /\ (pc[b] = "cp_remove" /\ pc'[b] = "ret"
                 /\ result'[b] = <<"compact", "PersisterError">>) =>
                 /\ todo[b] \subseteq SnapshotChanges(document_tree', b)
                 /\ \A c \in backend[b].applied :
                        KeyOf(b, c) \in DOMAIN changes_tree' =>
                            c \in SnapshotChanges(document_tree', b)
          /\ (pc[b] = "cp_remove" /\ pc'[b] = "ret"
                 /\ result'[b] = <<"compact", "Ok">>) =>
                 \A c \in SnapshotChanges(document_tree', b) :
                     KeyOf(b, c) \notin DOMAIN changes_tree'
      ]_vars

\* C15 witness: compact has returned PersisterError from remove_changes
\* part-way: the snapshot is stored, the record of one change it holds is
\* gone and the record of another is left.
C15_Witness ==
    /\ pc[1] = "ret"
    /\ result[1] = <<"compact", "PersisterError">>
    /\ SnapshotChanges(document_tree, 1) = backend[1].applied
    /\ \E c, d \in Feed(1) \cap SnapshotChanges(document_tree, 1) :
          /\ KeyOf(1, c) \in DOMAIN changes_tree
          /\ KeyOf(1, d) \notin DOMAIN changes_tree

\* C16: load from a store with one more record, of bytes that do not
\* decode, returns the error; while storage holds a change record the
\* engine rejects, load returns an error and no backend (the persister's
\* own error if a read fails first); and a load that returns EngineError
\* leaves both trees as they were, the offending record included, so that
\* a load from the store it leaves returns EngineError again.
C16_LoadFailsAndKeepsFailing ==
    [][\A b \in Backends :
          pc[b] = "down" =>
              /\ load(tree_insert(changes_tree, <<0>>, <<"not a change">>),
                      document_tree, Prefix(b)).err
              /\ (\E c \in StoredChanges(b) : ~c.ok) =>
                     /\ pc'[b] = "down"
                     /\ backend'[b] = EngineInit
                     /\ result'[b] # result[b] =>
                            result'[b] \in {<<"load", "EngineError">>,
                                            <<"load", "PersisterError">>}
              /\ (result'[b] = <<"load", "EngineError">>) =>
                     /\ pc'[b] = "down"
                     /\ backend'[b] = EngineInit
                     /\ changes_tree' = changes_tree
                     /\ document_tree' = document_tree
                     /\ \E c \in StoredChanges(b)' : ~c.ok
                     /\ LoadOutcome(changes_tree', document_tree', b) = <<"EngineError">>
      ]_vars

\* C16 witness: load has returned EngineError from a store that holds a
\* snapshot, a record the engine accepts and a record it rejects.
C16_Witness ==
    /\ pc[1] = "down"
    /\ result[1] = <<"load", "EngineError">>
    /\ SnapshotChanges(document_tree, 1) # {}
    /\ \E c, d \in StoredChanges(1) : ~c.ok /\ d.ok

\* C17: in every state a backend's namespace of the document tree holds no
\* key but prefix ++ "document", so at most one snapshot record; the step of
\* compact that stores a snapshot leaves that one record holding the
\* engine's save, and no step removes the record once it is there.
C17_OneSnapshotRecord ==
    [][\A b \in Backends :
          LET key == make_document_key(Prefix(b))
          IN  /\ NamespaceKeys(document_tree, b) \subseteq {key}
              /\ NamespaceKeys(document_tree', b) \subseteq {key}
              /\ Cardinality(NamespaceKeys(document_tree', b)) <= 1
              /\ key \in DOMAIN document_tree => key \in DOMAIN document_tree'
              /\ (pc[b] = "idle" /\ pc'[b] = "cp_remove") =>
                     /\ NamespaceKeys(document_tree', b) = {key}
                     /\ document_tree'[key] = engine_save(backend[b])
      ]_vars

\* C17 witness: a second compact of backend 1 has stored its snapshot over
\* an earlier one: the one record of namespace "1" holds a local change
\* whose record an earlier compact removed and a change the engine can
\* only have loaded after that local change was made.
C17_Witness ==
    /\ pc[1] = "cp_remove"
    /\ NamespaceKeys(document_tree, 1) = {make_document_key(Prefix(1))}
    /\ NamespaceKeys(document_tree, 2) = {make_document_key(Prefix(2))}
    /\ todo[1] = backend[1].applied
    /\ SnapshotChanges(document_tree, 1) = backend[1].applied
    /\ c1 \in SnapshotChanges(document_tree, 1)
    /\ \E d \in todo[1] :
          d.actor = LocalActor(1) /\ d.deps = {} /\ KeyOf(1, d) \notin DOMAIN changes_tree

\* C18: a step that is not a step of backend o (it leaves o's engine and
\* o's position in its call as they were) removes no key of o's namespace
\* from either tree and leaves the value under each such key as it was.
C18_OtherNamespaceUntouched ==
    [][\A o \in Backends :
          (/\ pc'[o] = pc[o] /\ idx'[o] = idx[o] /\ todo'[o] = todo[o]
           /\ batch'[o] = batch[o] /\ result'[o] = result[o]
           /\ backend'[o] = backend[o]) =>
              /\ \A k \in NamespaceKeys(changes_tree, o) :
                     k \in DOMAIN changes_tree' /\ changes_tree'[k] = changes_tree[k]
              /\ \A k \in NamespaceKeys(document_tree, o) :
                     k \in DOMAIN document_tree' /\ document_tree'[k] = document_tree[k]
      ]_vars

\* C18 witness: backend 2 has compacted with a change of backend 1 in its
\* engine and has removed its own key for it; backend 1's record of that
\* change and backend 1's snapshot record are in storage.
C18_Witness ==
    /\ pc[2] = "ret"
    /\ result[2] = <<"compact", "Ok">>
    /\ make_document_key(Prefix(1)) \in DOMAIN document_tree
    /\ \E c \in SnapshotChanges(document_tree, 2) :
          /\ c.actor = LocalActor(1)
          /\ KeyOf(1, c) \in DOMAIN changes_tree
          /\ KeyOf(2, c) \notin DOMAIN changes_tree

\* C19: a step of load, whatever it returns, leaves the changes tree and
\* the document tree exactly as they were, the change records the stored
\* snapshot already covers included.
C19_LoadOnlyReads ==
    [][\A b \in Backends :
          (pc[b] = "down" /\ (pc'[b] # pc[b] \/ result'[b] # result[b])) =>
              /\ result'[b][1] = "load"
              /\ changes_tree' = changes_tree
              /\ document_tree' = document_tree
      ]_vars

\* C19 witness: load has returned a backend from a store a crash inside
\* compact's removal left behind: a record the stored snapshot covers is
\* still in the changes tree, next to the gap of a record already removed.
C19_Witness ==
    /\ pc[1] = "ret"
    /\ result[1] = <<"load", "Ok">>
    /\ \E c, d \in Feed(1) \cap SnapshotChanges(document_tree, 1) :
          /\ KeyOf(1, c) \in DOMAIN changes_tree
          /\ KeyOf(1, d) \notin DOMAIN changes_tree

\* C20: a step in which get_patch, get_changes_for_actor_id, get_changes,
\* get_missing_deps or get_heads returns leaves the changes tree, the
\* document tree and the engine (applied and pending changes) as they were.
C20_QueriesReadOnly ==
    [][\A b \in Backends :
          (pc[b] = "idle" /\ pc'[b] = "ret" /\ result'[b][1] \in Queries) =>
              /\ changes_tree' = changes_tree
              /\ document_tree' = document_tree
              /\ backend' = backend
      ]_vars

\* C20 witness: get_missing_deps has returned a dependency some pending
\* change waits for, on a backend with applied changes, stored records and
\* a stored snapshot.
C20_Witness ==
    /\ pc[1] = "ret"
    /\ result[1][1] = "get_missing_deps"
    /\ result[1][2] # {}
    /\ backend[1].queue # {}
    /\ backend[1].applied # {}
    /\ DOMAIN changes_tree # {}
    /\ DOMAIN document_tree # {}

====
